---- MODULE Spec2Model ----
(***************************************************************************)
(* A model of netlify/functions/chat.js: the serverless handler that       *)
(* forwards chat payloads to the Gemini generateContent endpoint.          *)
(*                                                                         *)
(* JavaScript values are tagged records, JSON texts are strings that carry *)
(* the value they denote together with their lexical form, and every       *)
(* invocation of the handler is a little process that runs from one await  *)
(* to the next.                                                            *)
(***************************************************************************)
EXTENDS Integers, Sequences, FiniteSets, TLC

VARIABLES
    GEMINI_API_KEY,  \* process.env.GEMINI_API_KEY
    pc,              \* per invocation: where the async handler is suspended
    event,           \* per invocation: the event the handler was called with
    calls,           \* per invocation: the fetch calls issued, in order
    fetched,         \* per invocation: how the fetch promise settled
    bodyRead,        \* per invocation: how response.text()/json() settled
    result           \* per invocation: how the handler's promise settled

vars == <<GEMINI_API_KEY, pc, event, calls, fetched, bodyRead, result>>

\* The number of handler invocations that may be in flight together.
NumInv == 2

(***************************************************************************)
(* JavaScript values                                                       *)
(***************************************************************************)
Undefined == [t |-> "undefined"]
Null      == [t |-> "null"]
Bool(b)   == [t |-> "bool", b |-> b]
\* A number is the fraction n/d in lowest terms (0.8 is Num(4, 5)).
Num(n, d) == [t |-> "num", n |-> n, d |-> d]
Whole(n)  == Num(n, 1)
\* A string is either plain characters or a JSON document: the value it
\* denotes and whether it is written with insignificant white space.
Chars(c)    == [t |-> "str", s |-> [chars |-> c]]
JsonText(v, ws) == [t |-> "str", s |-> [doc |-> v, ws |-> ws]]
Arr(a)    == [t |-> "arr", a |-> a]
Obj(o)    == [t |-> "obj", o |-> o]
EmptyObj  == Obj(<<>>)

IsJsonText(v) == v.t = "str" /\ DOMAIN v.s = {"doc", "ws"}

\* ToBoolean: the falsy values are undefined, null, false, 0 and "".
Truthy(v) ==
    CASE v.t = "undefined" -> FALSE
      [] v.t = "null"      -> FALSE
      [] v.t = "bool"      -> v.b
      [] v.t = "num"       -> v.n # 0
      [] v.t = "str"       -> v.s # [chars |-> ""]
      [] OTHER             -> TRUE

\* a || b
Or(a, b) == IF Truthy(a) THEN a ELSE b

\* v[k] cannot be evaluated on undefined and null: a TypeError is thrown.
CanGet(v) == v.t \notin {"undefined", "null"}

\* v[k] for the keys the handler reads (no primitive and no array has them).
Get(v, k) == IF v.t = "obj" /\ k \in DOMAIN v.o THEN v.o[k] ELSE Undefined

\* Array.isArray(v)
IsArray(v) == v.t = "arr"

\* `${v}` for the values the handler interpolates.
TemplateString(v) ==
    CASE v.t = "str" /\ ~IsJsonText(v) -> v.s.chars
      [] v.t = "num" /\ v.d = 1        -> ToString(v.n)
      [] v.t = "bool"                  -> IF v.b THEN "true" ELSE "false"
      [] v.t = "obj"                   -> "[object Object]"

\* JSON.parse(text): the value of a JSON document, a SyntaxError otherwise.
JSONparses(text) == IsJsonText(text)
JSONparse(text)  == text.s.doc

\* JSON.stringify(v): the document of v, written without white space.
JSONstringify(v) == JsonText(v, FALSE)

(***************************************************************************)
(* The handler, up to its first await                                      *)
(***************************************************************************)
AllowOrigin  == "*"
AllowMethods == "POST,OPTIONS,GET"
AllowHeaders == "Content-Type, Authorization"
JsonType     == "application/json"

\* A variant that forgets the content type.
corsHeadersNoContentType(extra) ==
    extra @@ [ AccessControlAllowOrigin  |-> AllowOrigin,
               AccessControlAllowMethods |-> AllowMethods,
               AccessControlAllowHeaders |-> AllowHeaders ]

NoExtra == <<>>

corsHeaders(extra) ==
    extra @@ [ AccessControlAllowOrigin  |-> AllowOrigin,
               AccessControlAllowMethods |-> AllowMethods,
               AccessControlAllowHeaders |-> AllowHeaders,
               ContentType               |-> JsonType ]

\* A response object; OPTIONS returns one without a body property.
Response(status, body) ==
    [statusCode |-> status, headers |-> corsHeaders(NoExtra), body |-> body]

\* How a step of the handler ends: it returns, it throws, or it awaits.
Return(response) == [kind |-> "return", response |-> response]
Throw(error)     == [kind |-> "throw", error |-> error]
Await(call)      == [kind |-> "await", call |-> call]

IsPreflight(ev)       == ev.httpMethod = "OPTIONS"
IsHealthCheck(ev)     == ev.httpMethod = "GET"
MethodNotAllowed(ev)  == ev.httpMethod # "POST"
\* A variant that takes an empty key for a configured one.
KeyUndefined(key)     == key = Undefined
KeyMissing(key)       == ~Truthy(key)

PreflightResponse == Response(204, Undefined)
HealthResponse(now) ==
    Response(200, JSONstringify(Obj([status |-> Chars("ok"), time |-> Chars(now)])))
MethodNotAllowedResponse ==
    Response(405, JSONstringify(Obj([error |-> Chars("Method Not Allowed")])))
KeyMissingResponse ==
    Response(500, JSONstringify(Obj([error |->
        Chars("GEMINI_API_KEY not configured in Netlify environment variables")])))
InvalidJsonResponse ==
    Response(400, JSONstringify(Obj([error |-> Chars("Invalid JSON body")])))
NoContentsResponse ==
    Response(400, JSONstringify(Obj([error |->
        Chars("Request must include \"contents\" array")])))

\* event.body || '{}'
BodyText(ev) == Or(ev.body, JsonText(EmptyObj, FALSE))

\* !payload.contents || !Array.isArray(payload.contents)
ContentsInvalid(payload) ==
    ~Truthy(Get(payload, "contents")) \/ ~IsArray(Get(payload, "contents"))

DefaultModel == Chars("gemini-2.5-flash")
DefaultGenerationConfig ==
    Obj([ temperature     |-> Num(4, 5),
          topK            |-> Whole(40),
          topP            |-> Num(19, 20),
          maxOutputTokens |-> Whole(1024) ])

\* payload.model || 'gemini-2.5-flash'
model(payload) == Or(Get(payload, "model"), DefaultModel)

apiUrl(payload, key) ==
    [ base  |-> "https://generativelanguage.googleapis.com/v1beta/models/",
      model |-> TemplateString(model(payload)),
      verb  |-> ":generateContent",
      key   |-> TemplateString(key) ]

\* A variant that ignores the caller's generationConfig.
requestBodyDefaultConfig(payload) ==
    Obj([ contents         |-> Get(payload, "contents"),
          generationConfig |-> DefaultGenerationConfig ])

requestBody(payload) ==
    Obj([ contents         |-> Get(payload, "contents"),
          generationConfig |-> Or(Get(payload, "generationConfig"),
                                  DefaultGenerationConfig) ])

\* The arguments of fetch(apiUrl, {method, headers, body}).
FetchCall(payload, key) ==
    [ url     |-> apiUrl(payload, key),
      method  |-> "POST",
      headers |-> [ContentType |-> JsonType],
      body    |-> JSONstringify(requestBody(payload)) ]

\* Lines 45-82, once the method is POST and the key is configured.
Forward(ev, key) ==
    IF ~JSONparses(BodyText(ev)) THEN Return(InvalidJsonResponse)
    ELSE LET payload == JSONparse(BodyText(ev)) IN
         IF ~CanGet(payload) THEN Throw("TypeError")
         ELSE IF ContentsInvalid(payload) THEN Return(NoContentsResponse)
         ELSE Await(FetchCall(payload, key))

\* A variant that checks the key before it looks at the method.
HandlerEntryKeyFirst(ev, key, now) ==
    IF KeyMissing(key) THEN Return(KeyMissingResponse)
    ELSE IF IsPreflight(ev) THEN Return(PreflightResponse)
    ELSE IF IsHealthCheck(ev) THEN Return(HealthResponse(now))
    ELSE IF MethodNotAllowed(ev) THEN Return(MethodNotAllowedResponse)
    ELSE Forward(ev, key)

\* The handler from its entry to its first return, throw or await.
HandlerEntry(ev, key, now) ==
    IF IsPreflight(ev) THEN Return(PreflightResponse)
    ELSE IF IsHealthCheck(ev) THEN Return(HealthResponse(now))
    ELSE IF MethodNotAllowed(ev) THEN Return(MethodNotAllowedResponse)
    ELSE IF KeyMissing(key) THEN Return(KeyMissingResponse)
    ELSE Forward(ev, key)

(***************************************************************************)
(* The handler after the fetch promise settles                             *)
(***************************************************************************)
\* response.ok of node-fetch: the status is in the range 200-299.
Ok(status) == status >= 200 /\ status <= 299

\* `Gemini API Error: ${response.status}`
ErrorLine(status) == Chars("Gemini API Error: " \o ToString(status))

\* A variant that answers every upstream error with 500.
UpstreamErrorAs500(status, errorText) ==
    Response(500,
             JSONstringify(Obj([error |-> ErrorLine(status), details |-> errorText])))

\* Lines 87-91.
UpstreamErrorResponse(status, errorText) ==
    Response(status,
             JSONstringify(Obj([error |-> ErrorLine(status), details |-> errorText])))

\* A variant that wraps the upstream payload in an envelope.
SuccessResponseEnvelope(data) ==
    Response(200, JSONstringify(Obj([data |-> data])))

\* Lines 97-101.
SuccessResponse(data) == Response(200, JSONstringify(data))

\* Lines 103-110: err.message || 'Failed to call Gemini API'
CatchResponse(message) ==
    Response(500, JSONstringify(Obj([error |->
        Or(Chars(message), Chars("Failed to call Gemini API"))])))

\* The message of the error response.json() rejects with on a body that is
\* not JSON.
InvalidJsonMessage == "invalid json response body"

(***************************************************************************)
(* Inputs                                                                  *)
(***************************************************************************)
Methods == {"OPTIONS", "GET", "POST", "PUT", "DELETE"}
Keys    == {Undefined, Chars(""), Chars("AIza-secret")}
Times   == {"2025-01-01T00:00:00.000Z", "2025-01-01T00:00:01.000Z"}

Message == Obj([ role  |-> Chars("user"),
                 parts |-> Arr(<<Obj([text |-> Chars("hi")])>>) ])
CustomConfig == Obj([temperature |-> Whole(0)])

\* An optional property: absent when the value is Undefined.
Prop(k, v) == IF v = Undefined THEN <<>> ELSE k :> v

ContentsValues == {Arr(<<>>), Arr(<<Message>>)}
ModelValues    == {Undefined, Chars(""), Chars("gemini-pro"), Whole(7)}
ConfigValues   == {Undefined, Null, Bool(FALSE), CustomConfig}

\* Payloads that pass validation.
ValidPayloads ==
    { Obj(Prop("contents", c) @@ Prop("model", m) @@ Prop("generationConfig", g)) :
        c \in ContentsValues, m \in ModelValues, g \in ConfigValues }

\* JSON values that fail validation (or make it throw).
InvalidPayloads ==
    { Null, Whole(5), Chars("hi"), Bool(FALSE), Arr(<<>>), Arr(<<Message>>),
      EmptyObj, Obj([foo |-> Whole(1)]),
      Obj([contents |-> Chars("hi")]), Obj([contents |-> Null]),
      Obj([contents |-> Obj([length |-> Whole(1)])]),
      Obj([model |-> Chars("gemini-pro")]) }

\* event.body: absent, empty, not JSON, or the text of a JSON value.
Bodies ==
    {Null, Chars(""), Chars("not json")}
        \cup { JsonText(v, FALSE) : v \in ValidPayloads \cup InvalidPayloads }

Events == [httpMethod : Methods, body : Bodies]

\* What the upstream may answer.
Statuses == {200, 201, 429, 503}
Candidates == Obj([candidates |-> Arr(<<Obj([text |-> Chars("hello")])>>)])
UpstreamTexts ==
    { JsonText(Candidates, FALSE), JsonText(Candidates, TRUE),
      Chars("rate limited"), Chars("") }
FailureMessages == {"", "socket hang up"}

(***************************************************************************)
(* Invocations                                                             *)
(***************************************************************************)
NoEvent  == [httpMethod |-> "", body |-> Undefined]
Pending  == [kind |-> "pending"]
Fulfilled(response) == [kind |-> "fulfilled", value |-> response]
Rejected(reason)    == [kind |-> "rejected", reason |-> reason]

InitFor(n) ==
    /\ GEMINI_API_KEY \in Keys
    /\ pc       = [i \in 1..n |-> "idle"]
    /\ event    = [i \in 1..n |-> NoEvent]
    /\ calls    = [i \in 1..n |-> <<>>]
    /\ fetched  = [i \in 1..n |-> Pending]
    /\ bodyRead = [i \in 1..n |-> Pending]
    /\ result   = [i \in 1..n |-> Pending]

Invocations == DOMAIN pc

\* A variant that keeps a process-wide "in flight" flag: a request that would
\* call the upstream while another call is in flight is answered 429.
EnterThrottled(i, ev, now) ==
    LET step == HandlerEntry(ev, GEMINI_API_KEY, now)
        busy == \E j \in DOMAIN pc : pc[j] \in {"fetch", "text", "json"}
    IN
    /\ pc[i] = "idle"
    /\ event' = [event EXCEPT ![i] = ev]
    /\ CASE step.kind = "return" ->
              /\ pc' = [pc EXCEPT ![i] = "settled"]
              /\ result' = [result EXCEPT ![i] = Fulfilled(step.response)]
              /\ calls' = calls
         [] step.kind = "throw" ->
              /\ pc' = [pc EXCEPT ![i] = "settled"]
              /\ result' = [result EXCEPT ![i] = Rejected(step.error)]
              /\ calls' = calls
         [] step.kind = "await" /\ busy ->
              /\ pc' = [pc EXCEPT ![i] = "settled"]
              /\ result' = [result EXCEPT ![i] =
                               Fulfilled(UpstreamErrorResponse(429, Chars("busy")))]
              /\ calls' = calls
         [] step.kind = "await" /\ ~busy ->
              /\ pc' = [pc EXCEPT ![i] = "fetch"]
              /\ result' = result
              /\ calls' = [calls EXCEPT ![i] = Append(@, step.call)]
    /\ UNCHANGED <<GEMINI_API_KEY, fetched, bodyRead>>

\* The runtime calls the handler with ev; it runs to its first return, throw
\* or await.
Enter(i, ev, now) ==
    LET step == HandlerEntry(ev, GEMINI_API_KEY, now) IN
    /\ pc[i] = "idle"
    /\ event' = [event EXCEPT ![i] = ev]
    /\ CASE step.kind = "return" ->
              /\ pc' = [pc EXCEPT ![i] = "settled"]
              /\ result' = [result EXCEPT ![i] = Fulfilled(step.response)]
              /\ calls' = calls
         [] step.kind = "throw" ->
              /\ pc' = [pc EXCEPT ![i] = "settled"]
              /\ result' = [result EXCEPT ![i] = Rejected(step.error)]
              /\ calls' = calls
         [] step.kind = "await" ->
              /\ pc' = [pc EXCEPT ![i] = "fetch"]
              /\ result' = result
              /\ calls' = [calls EXCEPT ![i] = Append(@, step.call)]
    /\ UNCHANGED <<GEMINI_API_KEY, fetched, bodyRead>>

Invoke(i) == \E ev \in Events, now \in Times : Enter(i, ev, now)

\* The handler returns response.
Settle(i, response) ==
    /\ pc' = [pc EXCEPT ![i] = "settled"]
    /\ result' = [result EXCEPT ![i] = Fulfilled(response)]

\* await fetch(...) resolves with a response (line 78, then line 84).
FetchResolve(i) ==
    /\ pc[i] = "fetch"
    /\ \E status \in Statuses :
         /\ fetched' = [fetched EXCEPT ![i] = [kind |-> "response", status |-> status]]
         /\ pc' = [pc EXCEPT ![i] = IF Ok(status) THEN "json" ELSE "text"]
    /\ UNCHANGED <<GEMINI_API_KEY, event, calls, bodyRead, result>>

\* A variant that calls the upstream once more when the call fails.
FetchRejectRetry(i) ==
    /\ pc[i] = "fetch"
    /\ \E m \in FailureMessages :
         /\ fetched' = [fetched EXCEPT ![i] = [kind |-> "error", message |-> m]]
         /\ IF Len(calls[i]) < 2
               THEN /\ calls' = [calls EXCEPT ![i] = Append(@, @[1])]
                    /\ UNCHANGED <<pc, result>>
               ELSE /\ Settle(i, CatchResponse(m))
                    /\ calls' = calls
    /\ UNCHANGED <<GEMINI_API_KEY, event, bodyRead>>

\* await fetch(...) rejects: the catch block answers.
FetchReject(i) ==
    /\ pc[i] = "fetch"
    /\ \E m \in FailureMessages :
         /\ fetched' = [fetched EXCEPT ![i] = [kind |-> "error", message |-> m]]
         /\ Settle(i, CatchResponse(m))
    /\ UNCHANGED <<GEMINI_API_KEY, event, calls, bodyRead>>

\* await response.text() resolves (lines 85-91).
TextResolve(i) ==
    /\ pc[i] = "text"
    /\ \E text \in UpstreamTexts :
         /\ bodyRead' = [bodyRead EXCEPT ![i] = [kind |-> "text", text |-> text]]
         /\ Settle(i, UpstreamErrorResponse(fetched[i].status, text))
    /\ UNCHANGED <<GEMINI_API_KEY, event, calls, fetched>>

\* await response.text() rejects: the body could not be read.
TextReject(i) ==
    /\ pc[i] = "text"
    /\ \E m \in FailureMessages :
         /\ bodyRead' = [bodyRead EXCEPT ![i] = [kind |-> "error", message |-> m]]
         /\ Settle(i, CatchResponse(m))
    /\ UNCHANGED <<GEMINI_API_KEY, event, calls, fetched>>

\* await response.json() has read the body: it resolves with the parsed
\* value, or rejects when the body is not JSON (lines 94-101).
JsonRead(i) ==
    /\ pc[i] = "json"
    /\ \E text \in UpstreamTexts :
         /\ bodyRead' = [bodyRead EXCEPT ![i] = [kind |-> "text", text |-> text]]
         /\ IF JSONparses(text)
               THEN Settle(i, SuccessResponse(JSONparse(text)))
               ELSE Settle(i, CatchResponse(InvalidJsonMessage))
    /\ UNCHANGED <<GEMINI_API_KEY, event, calls, fetched>>

\* await response.json() rejects: the body could not be read.
JsonReject(i) ==
    /\ pc[i] = "json"
    /\ \E m \in FailureMessages :
         /\ bodyRead' = [bodyRead EXCEPT ![i] = [kind |-> "error", message |-> m]]
         /\ Settle(i, CatchResponse(m))
    /\ UNCHANGED <<GEMINI_API_KEY, event, calls, fetched>>

\* One invocation, every request.
Init == InitFor(1)
Next ==
    \/ \E i \in Invocations : Invoke(i)
    \/ \E i \in Invocations : FetchResolve(i)
    \/ \E i \in Invocations : FetchReject(i)
    \/ \E i \in Invocations : TextResolve(i)
    \/ \E i \in Invocations : TextReject(i)
    \/ \E i \in Invocations : JsonRead(i)
    \/ \E i \in Invocations : JsonReject(i)
Spec == Init /\ [][Next]_vars

\* Several invocations in flight together, on a few requests.
ConcurrentEvents ==
    { [httpMethod |-> "GET", body |-> Null],
      [httpMethod |-> "POST", body |-> JsonText(Obj([foo |-> Whole(1)]), FALSE)],
      [httpMethod |-> "POST", body |-> JsonText(Obj([contents |-> Arr(<<Message>>)]), FALSE)],
      [httpMethod |-> "POST", body |-> JsonText(Obj([contents |-> Arr(<<>>),
                                                     model |-> Chars("gemini-pro"),
                                                     generationConfig |-> CustomConfig]), FALSE)] }
InvokeConcurrent(i) == \E ev \in ConcurrentEvents, now \in Times : Enter(i, ev, now)

InitConcurrent == InitFor(NumInv)
NextConcurrent ==
    \/ \E i \in Invocations : InvokeConcurrent(i)
    \/ \E i \in Invocations : FetchResolve(i)
    \/ \E i \in Invocations : FetchReject(i)
    \/ \E i \in Invocations : TextResolve(i)
    \/ \E i \in Invocations : TextReject(i)
    \/ \E i \in Invocations : JsonRead(i)
    \/ \E i \in Invocations : JsonReject(i)
SpecConcurrent == InitConcurrent /\ [][NextConcurrent]_vars

(***************************************************************************)
(* Properties                                                              *)
(***************************************************************************)
Entered(i)   == pc[i] # "idle"
Settled(i)   == pc[i] = "settled"
Responded(i) == result[i].kind = "fulfilled"
Status(i)    == result[i].value.statusCode
\* The JSON value of a response's body.
BodyDoc(i)   == result[i].value.body.s.doc
HasJsonBody(i) == IsJsonText(result[i].value.body)
IsErrorObject(v) == v.t = "obj" /\ "error" \in DOMAIN v.o
IsPost(i)    == event[i].httpMethod = "POST"
KeyConfigured == GEMINI_API_KEY.t = "str" /\ GEMINI_API_KEY # Chars("")
\* The text the handler parses: an absent or empty body stands for {}.
Parsed(i) ==
    IF event[i].body \in {Null, Chars("")} THEN EmptyObj ELSE event[i].body.s.doc
BodyIsJson(i) == event[i].body \in {Null, Chars("")} \/ IsJsonText(event[i].body)
HasContentsSequence(v) ==
    v.t = "obj" /\ "contents" \in DOMAIN v.o /\ v.o.contents.t = "arr"

\* C1: every invocation that ends has returned a response; none ends with an
\* uncaught exception.
C1_AlwaysResponds == \A i \in Invocations : Settled(i) => Responded(i)

\* C2: OPTIONS gets 204 without a body, GET gets 200 with {status:"ok", time},
\* any method other than OPTIONS, GET and POST gets 405 with
\* {error:"Method Not Allowed"}; whatever the key and the body, and without an
\* outbound call.
C2_MethodDispatch ==
    \A i \in Invocations : Entered(i) /\ ~IsPost(i) =>
        /\ Responded(i)
        /\ calls[i] = <<>>
        /\ event[i].httpMethod = "OPTIONS" =>
              Status(i) = 204 /\ result[i].value.body = Undefined
        /\ event[i].httpMethod = "GET" =>
              /\ Status(i) = 200
              /\ HasJsonBody(i)
              /\ BodyDoc(i).t = "obj"
              /\ DOMAIN BodyDoc(i).o = {"status", "time"}
              /\ BodyDoc(i).o.status = Chars("ok")
              /\ BodyDoc(i).o.time \in {Chars(t) : t \in Times}
        /\ event[i].httpMethod \notin {"OPTIONS", "GET"} =>
              /\ Status(i) = 405
              /\ HasJsonBody(i)
              /\ BodyDoc(i) = Obj([error |-> Chars("Method Not Allowed")])

C2_Witness ==
    \E i \in Invocations :
        /\ event[i].httpMethod = "GET"
        /\ ~KeyConfigured
        /\ event[i].body = Chars("not json")
        /\ Responded(i) /\ Status(i) = 200

\* C3: a POST made while the key is absent or empty gets 500 whatever its
\* body, and no outbound call is made.
C3_MissingKey ==
    \A i \in Invocations : Entered(i) /\ IsPost(i) /\ ~KeyConfigured =>
        /\ Responded(i)
        /\ Status(i) = 500
        /\ HasJsonBody(i) /\ IsErrorObject(BodyDoc(i))
        /\ calls[i] = <<>>

C3_Witness ==
    \E i \in Invocations :
        /\ IsPost(i)
        /\ GEMINI_API_KEY = Chars("")
        /\ event[i].body = JsonText(Null, FALSE)
        /\ Responded(i) /\ Status(i) = 500

\* C4: with the key configured, a POST whose body is not JSON, or whose
\* parsed body (of any JSON type) has no contents sequence, gets 400 with an
\* error object, and no outbound call is made.
C4_Validation ==
    \A i \in Invocations :
        Entered(i) /\ IsPost(i) /\ KeyConfigured
          /\ (~BodyIsJson(i) \/ ~HasContentsSequence(Parsed(i))) =>
            /\ Responded(i)
            /\ Status(i) = 400
            /\ HasJsonBody(i) /\ IsErrorObject(BodyDoc(i))
            /\ calls[i] = <<>>

UpstreamOk(i)    == fetched[i].kind = "response" /\ Ok(fetched[i].status)
UpstreamNotOk(i) == fetched[i].kind = "response" /\ ~Ok(fetched[i].status)
BodyWasRead(i)   == bodyRead[i].kind = "text"

\* C5 as stated: an upstream success status always gets 200 and the upstream
\* body itself, text for text.
C5_PassThroughExact ==
    \A i \in Invocations : Settled(i) /\ UpstreamOk(i) =>
        /\ Responded(i)
        /\ Status(i) = 200
        /\ BodyWasRead(i)
        /\ result[i].value.body = bodyRead[i].text

\* C5: when the upstream answers with a success status and its body is read
\* and is JSON, the handler answers 200 with the compact serialisation of the
\* parsed body (the same JSON value); when that body cannot be read or is not
\* JSON, the handler answers 500 with an error object.
C5_PassThroughValue ==
    \A i \in Invocations : Settled(i) /\ UpstreamOk(i) =>
        /\ Responded(i)
        /\ HasJsonBody(i)
        /\ IF BodyWasRead(i) /\ IsJsonText(bodyRead[i].text)
              THEN /\ Status(i) = 200
                   /\ BodyDoc(i) = bodyRead[i].text.s.doc
                   /\ ~result[i].value.body.s.ws
              ELSE /\ Status(i) = 500
                   /\ IsErrorObject(BodyDoc(i))

C5_Witness ==
    \E i \in Invocations :
        /\ Settled(i)
        /\ fetched[i] = [kind |-> "response", status |-> 201]
        /\ bodyRead[i] = [kind |-> "text", text |-> JsonText(Candidates, TRUE)]
        /\ Status(i) = 200
        /\ result[i].value.body = JsonText(Candidates, FALSE)

\* C6 as stated: an upstream non-success status S always gets S, with an
\* error naming S and the raw upstream body as details.
C6_RelayAlways ==
    \A i \in Invocations : Settled(i) /\ UpstreamNotOk(i) =>
        /\ Responded(i)
        /\ Status(i) = fetched[i].status

\* C6: when the upstream answers with a non-success status S and its body
\* text is read, the handler answers S with an error naming S and the raw
\* upstream text as details; when that body cannot be read, the handler
\* answers 500 with an error object.
C6_RelayStatus ==
    \A i \in Invocations : Settled(i) /\ UpstreamNotOk(i) =>
        /\ Responded(i)
        /\ HasJsonBody(i)
        /\ IF BodyWasRead(i)
              THEN /\ Status(i) = fetched[i].status
                   /\ DOMAIN BodyDoc(i).o = {"error", "details"}
                   /\ BodyDoc(i).o.error =
                        Chars("Gemini API Error: " \o ToString(fetched[i].status))
                   /\ BodyDoc(i).o.details = bodyRead[i].text
              ELSE /\ Status(i) = 500
                   /\ IsErrorObject(BodyDoc(i))

C6_Witness ==
    \E i \in Invocations :
        /\ Settled(i)
        /\ fetched[i] = [kind |-> "response", status |-> 429]
        /\ bodyRead[i] = [kind |-> "text", text |-> Chars("rate limited")]
        /\ Status(i) = 429
        /\ BodyDoc(i).o.details = Chars("rate limited")

\* C7: every response carries the same four headers.
C7_Headers ==
    \A i \in Invocations : Responded(i) =>
        result[i].value.headers =
            [ AccessControlAllowOrigin  |-> "*",
              AccessControlAllowMethods |-> "POST,OPTIONS,GET",
              AccessControlAllowHeaders |-> "Content-Type, Authorization",
              ContentType               |-> "application/json" ]

C7_Witness ==
    \E i \in Invocations :
        /\ Responded(i)
        /\ UpstreamNotOk(i)
        /\ Status(i) = 503
        /\ "ContentType" \in DOMAIN result[i].value.headers

\* The request of invocation i's outbound call.
Call(i)      == calls[i][1]
Supplied(i, k) == k \in DOMAIN Parsed(i).o
Falsy        == {Null, Bool(FALSE), Whole(0), Chars("")}
\* A supplied value as it reads once interpolated into the URL.
AsText(v)    == IF v.t = "num" THEN ToString(v.n) ELSE v.s.chars

\* C9 as stated: the call carries the caller's model whenever one is
\* supplied, the caller's contents, and the caller's generationConfig
\* whenever one is supplied, whatever its value.
C9_RequestAsSupplied ==
    \A i \in Invocations : calls[i] # <<>> =>
        /\ Call(i).url.model =
             IF Supplied(i, "model") THEN AsText(Parsed(i).o.model)
             ELSE "gemini-2.5-flash"
        /\ Call(i).body.s.doc.o.contents = Parsed(i).o.contents
        /\ Call(i).body.s.doc.o.generationConfig =
             IF Supplied(i, "generationConfig") THEN Parsed(i).o.generationConfig
             ELSE DefaultGenerationConfig

\* C9: the call carries the caller's model (as text) when one is supplied and
\* is not falsy (null, false, 0, ""), else the default identifier; the
\* caller's contents verbatim, an empty sequence included; and the caller's
\* generationConfig verbatim when one is supplied and is not falsy, else the
\* default {temperature:0.8, topK:40, topP:0.95, maxOutputTokens:1024}.
C9_RequestBuilt ==
    \A i \in Invocations : calls[i] # <<>> =>
        /\ Call(i).url.model =
             IF Supplied(i, "model") /\ Parsed(i).o.model \notin Falsy
                THEN AsText(Parsed(i).o.model)
                ELSE "gemini-2.5-flash"
        /\ Call(i).body.s.doc.o.contents = Parsed(i).o.contents
        /\ Call(i).body.s.doc.o.generationConfig =
             IF Supplied(i, "generationConfig")
                  /\ Parsed(i).o.generationConfig \notin Falsy
                THEN Parsed(i).o.generationConfig
                ELSE Obj([ temperature     |-> Num(4, 5),
                           topK            |-> Whole(40),
                           topP            |-> Num(19, 20),
                           maxOutputTokens |-> Whole(1024) ])

C9_Witness ==
    \E i \in Invocations :
        /\ calls[i] # <<>>
        /\ Parsed(i) = Obj([ contents         |-> Arr(<<>>),
                             model            |-> Whole(7),
                             generationConfig |-> CustomConfig ])
        /\ Call(i).url.model = "7"
        /\ Call(i).body.s.doc.o.generationConfig = CustomConfig

\* C10: an invocation issues at most one outbound call, only for a POST with
\* the key configured, a JSON body and a contents sequence; a failure of the
\* call is not followed by another call; and a response that follows a call
\* is produced only once the call has completed or failed.
C10_OneCall ==
    \A i \in Invocations :
        /\ Len(calls[i]) <= 1
        /\ calls[i] # <<>> =>
              /\ IsPost(i)
              /\ KeyConfigured
              /\ BodyIsJson(i)
              /\ HasContentsSequence(Parsed(i))
              /\ Settled(i) => fetched[i].kind \in {"response", "error"}
              /\ pc[i] = "fetch" <=> fetched[i] = Pending

C10_Witness ==
    \E i \in Invocations :
        /\ Len(calls[i]) = 1
        /\ fetched[i] = [kind |-> "error", message |-> "socket hang up"]
        /\ Settled(i) /\ Responded(i) /\ Status(i) = 500

\* What invocation i alone reads and writes.
Local(i) == <<pc[i], event[i], calls[i], fetched[i], bodyRead[i], result[i]>>

\* Two POSTs with the same request issue the same calls, and get the same
\* response when the upstream answers them alike.
SameRequestSameAnswer ==
    \A i, j \in Invocations :
        Entered(i) /\ Entered(j) /\ IsPost(i) /\ event[i] = event[j] =>
            /\ calls[i] = calls[j]
            /\ Settled(i) /\ Settled(j) /\ fetched[i] = fetched[j]
                 /\ bodyRead[i] = bodyRead[j] => result[i] = result[j]

\* A step is taken by one invocation: it leaves the key and every other
\* invocation as they are.
OneInvocationSteps ==
    /\ GEMINI_API_KEY' = GEMINI_API_KEY
    /\ \A i, j \in Invocations :
          i # j /\ Local(i)' # Local(i) => Local(j)' = Local(j)

\* C8: invocations are independent: the response to a POST depends only on
\* its own request, the key and the upstream's answer to its own call, and no
\* invocation changes what another one reads.
C8_Independent == []SameRequestSameAnswer /\ [][OneInvocationSteps]_vars

C8_Witness ==
    \E i, j \in Invocations :
        /\ i # j
        /\ event[i] = event[j]
        /\ calls[i] # <<>> /\ calls[j] # <<>>
        /\ Settled(i) /\ Settled(j)
        /\ fetched[i] = [kind |-> "response", status |-> 429]
        /\ fetched[j] = fetched[i]
        /\ bodyRead[j] = bodyRead[i]
        /\ Status(i) = 429
        /\ result[j] = result[i]

====
